---- MODULE Spec2Model ----
(***************************************************************************)
(* Lazy checkpoint loading of lightning.fabric.utilities.load:             *)
(* _NotYetLoadedTensor, _LazyLoadingUnpickler, _lazy_load and              *)
(* _materialize_tensors.                                                   *)
(*                                                                         *)
(* Values are records tagged by "kind":                                    *)
(*   "storage"  a TypedStorage (meta storage made by persistent_load, or   *)
(*              the storage wrapped around bytes read from a record)       *)
(*   "lazy"     a reference to a _NotYetLoadedTensor object of the heap    *)
(*   "tensor"   a real torch value; the torch constructors are kept as     *)
(*              free terms, so two values are equal exactly when they were *)
(*              built by the same constructor calls in the same order      *)
(*   "list"     a container holding values                                 *)
(*   "none"     Python's None                                              *)
(***************************************************************************)
EXTENDS Integers, Sequences, FiniteSets, TLC

VARIABLES phase, stack, memo, heap, applied, checkpoint, reads, records, last

vars == <<phase, stack, memo, heap, applied, checkpoint, reads, records, last>>

(***************************************************************************)
(* Bounds of the model.                                                    *)
(***************************************************************************)
MaxWraps == 2

None == [kind |-> "none"]

(***************************************************************************)
(* The archive: the records of the Record Store and the persistent ids the *)
(* descriptor stream may carry.  data/0 holds four 4-byte floats, data/1   *)
(* four 2-byte halves; no record data/9 exists, so loading from it fails.  *)
(***************************************************************************)
Records == { [name |-> <<"data", "0">>, nbytes |-> 16],
             [name |-> <<"data", "1">>, nbytes |-> 8] }

Pids == { [name |-> "storage", cls |-> "FloatStorage", fn |-> "0", device |-> "cpu", size |-> 4],
          [name |-> "storage", cls |-> "HalfStorage", fn |-> "9", device |-> "cpu", size |-> 4] }

RebuildArgs == { [storage_offset |-> 0, size |-> <<4>>, stride |-> <<1>>,
                  requires_grad |-> FALSE, backward_hooks |-> "hooks", metadata |-> None] }

NewTypes == {"SubA"}
(* The states a wrapped value was pickled with: "state" holds plain        *)
(* attributes, "resized" is one whose __setstate__ gives the value other   *)
(* data, of shape ResizedShape.                                            *)
States == {"state", "resized"}
ResizedShape == <<2, 2>>
RequiresGrad == {TRUE}
Keys == <<"k1", "k2">>

(* cls().dtype of a storage class, and torch._utils._element_size. *)
StorageDtype(cls) == IF cls = "FloatStorage" THEN "float32" ELSE "float16"

ElementSize(dtype) == IF dtype = "float32" THEN 4 ELSE 2

(***************************************************************************)
(* The torch constructors the hooks delegate to.                           *)
(***************************************************************************)
TorchRebuildTensorV2(storage, rebuild_args) ==
    [kind |-> "tensor", fn |-> "_rebuild_tensor_v2", storage |-> storage,
     rebuild_args |-> rebuild_args]

TorchRebuildParameter(data, requires_grad, backward_hooks) ==
    [kind |-> "tensor", fn |-> "_rebuild_parameter", data |-> data,
     requires_grad |-> requires_grad, backward_hooks |-> backward_hooks]

(* torch._tensor._rebuild_from_type_v2 applied to the value its func returned. *)
TorchRebuildFromTypeV2(ret, new_type, state) ==
    [kind |-> "tensor", fn |-> "_rebuild_from_type_v2", data |-> ret,
     new_type |-> new_type, state |-> state]

(* A constructor found by the default resolution: it returns a real value. *)
RealCtor == [kind |-> "tensor", fn |-> "real_ctor"]

(* The shape and the dtype of a real value. *)
RECURSIVE ShapeOf(_)
ShapeOf(v) ==
    IF v.fn = "_rebuild_tensor_v2" THEN v.rebuild_args.size
    ELSE IF v.fn = "_rebuild_parameter" THEN ShapeOf(v.data)
    ELSE IF v.fn = "_rebuild_from_type_v2"
    THEN (IF v.state = "resized" THEN ResizedShape ELSE ShapeOf(v.data))
    ELSE <<>>

RECURSIVE DtypeOf(_)
DtypeOf(v) ==
    IF v.fn = "_rebuild_tensor_v2" THEN v.storage.dtype
    ELSE IF v.fn \in {"_rebuild_parameter", "_rebuild_from_type_v2"} THEN DtypeOf(v.data)
    ELSE "float32"

IsLazy(v) == v.kind = "lazy"

(***************************************************************************)
(* Record Store: get_storage_from_record(name, nbytes).                    *)
(***************************************************************************)
GetStorageFromRecord(name, nbytes) ==
    IF [name |-> name, nbytes |-> nbytes] \in Records
    THEN [ok |-> TRUE, uts |-> [name |-> name, nbytes |-> nbytes]]
    ELSE [ok |-> FALSE, uts |-> None]

(***************************************************************************)
(* _NotYetLoadedTensor._load_tensor, the method of the class.              *)
(* The result carries the reads it issued.                                 *)
(***************************************************************************)
(* Variant: the element count is passed as the byte size. *)
LoadTensorMethodNumel(self) ==
    LET fn == self.storageinfo.fn
        size == self.storageinfo.size
        dtype == self.metatensor.storage.dtype
        req == [name |-> <<"data", fn>>, nbytes |-> size]
        got == GetStorageFromRecord(req.name, req.nbytes)
        storage == [kind |-> "storage", dtype |-> dtype, wrap_storage |-> got.uts]
    IN  IF got.ok
        THEN [ok |-> TRUE, val |-> TorchRebuildTensorV2(storage, self.rebuild_args),
              reads |-> <<req>>]
        ELSE [ok |-> FALSE, val |-> None, reads |-> <<req>>]

LoadTensorMethod(self) ==
    LET fn == self.storageinfo.fn
        size == self.storageinfo.size
        dtype == self.metatensor.storage.dtype
        req == [name |-> <<"data", fn>>, nbytes |-> size * ElementSize(dtype)]
        got == GetStorageFromRecord(req.name, req.nbytes)
        storage == [kind |-> "storage", dtype |-> dtype, wrap_storage |-> got.uts]
    IN  IF got.ok
        THEN [ok |-> TRUE, val |-> TorchRebuildTensorV2(storage, self.rebuild_args),
              reads |-> <<req>>]
        ELSE [ok |-> FALSE, val |-> None, reads |-> <<req>>]

(***************************************************************************)
(* Calling the object's _load_tensor attribute: the method, or one of the  *)
(* closures the wrapper hooks installed around the previous attribute.     *)
(***************************************************************************)
RECURSIVE CallLoadTensor(_, _)

FromTypeClosure(c, self) ==
    LET t == CallLoadTensor(c.old_lt, self)
    IN  IF t.ok
        THEN [t EXCEPT !.val = TorchRebuildFromTypeV2(t.val, c.new_type, c.state)]
        ELSE t

ParameterClosure(c, self) ==
    LET t == CallLoadTensor(c.old_lt, self)
    IN  IF t.ok
        THEN [t EXCEPT !.val = TorchRebuildParameter(t.val, c.requires_grad, c.backward_hooks)]
        ELSE t

CallLoadTensor(c, self) ==
    IF c.fn = "method" THEN LoadTensorMethod(self)
    ELSE IF c.fn = "from_type" THEN FromTypeClosure(c, self)
    ELSE ParameterClosure(c, self)

(* v._load_tensor() for a reference v to an object of heap h. *)
LoadTensor(h, id) == CallLoadTensor(h[id].load_tensor, h[id])

(***************************************************************************)
(* The three lazy-aware hooks.  They work on st = [heap, applied]: the     *)
(* objects, and per object the log of the wrapper hooks applied to it.     *)
(* reads are the Record Store reads the hook issues: none.                 *)
(***************************************************************************)
RebuildTensorV2Hook(storage, rebuild_args, st) ==
    LET metatensor == TorchRebuildTensorV2(storage, rebuild_args)
        storageinfo == storage.archiveinfo
        obj == [metatensor |-> metatensor, archiveinfo |-> "unpickler",
                storageinfo |-> storageinfo, rebuild_args |-> rebuild_args,
                load_tensor |-> [fn |-> "method"]]
    IN  [ret |-> [kind |-> "lazy", id |-> Len(st.heap) + 1],
         heap |-> Append(st.heap, obj),
         applied |-> Append(st.applied, <<>>),
         reads |-> <<>>]

(* Variant: the closure wraps the method of the class, not the attribute   *)
(* the object holds, so the steps installed before are lost.               *)
RebuildParameterHookFromMethod(data, requires_grad, backward_hooks, st) ==
    IF IsLazy(data)
    THEN LET closure == [fn |-> "parameter", old_lt |-> [fn |-> "method"],
                         requires_grad |-> requires_grad,
                         backward_hooks |-> backward_hooks]
         IN  [ret |-> data,
              heap |-> [st.heap EXCEPT ![data.id].load_tensor = closure],
              applied |-> [st.applied EXCEPT ![data.id] =
                             Append(@, [hook |-> "parameter",
                                        requires_grad |-> requires_grad,
                                        backward_hooks |-> backward_hooks])],
              reads |-> <<>>]
    ELSE [ret |-> TorchRebuildParameter(data, requires_grad, backward_hooks),
          heap |-> st.heap, applied |-> st.applied, reads |-> <<>>]

(* Variant: a Lazy Value handed to the hook is loaded at once. *)
RebuildParameterHookEager(data, requires_grad, backward_hooks, st) ==
    IF IsLazy(data)
    THEN LET t == LoadTensor(st.heap, data.id)
         IN  [ret |-> IF t.ok
                      THEN TorchRebuildParameter(t.val, requires_grad, backward_hooks)
                      ELSE data,
              heap |-> st.heap, applied |-> st.applied, reads |-> t.reads]
    ELSE [ret |-> TorchRebuildParameter(data, requires_grad, backward_hooks),
          heap |-> st.heap, applied |-> st.applied, reads |-> <<>>]

RebuildParameterHook(data, requires_grad, backward_hooks, st) ==
    IF IsLazy(data)
    THEN LET old_lt == st.heap[data.id].load_tensor
             closure == [fn |-> "parameter", old_lt |-> old_lt,
                         requires_grad |-> requires_grad,
                         backward_hooks |-> backward_hooks]
         IN  [ret |-> data,
              heap |-> [st.heap EXCEPT ![data.id].load_tensor = closure],
              applied |-> [st.applied EXCEPT ![data.id] =
                             Append(@, [hook |-> "parameter",
                                        requires_grad |-> requires_grad,
                                        backward_hooks |-> backward_hooks])],
              reads |-> <<>>]
    ELSE [ret |-> TorchRebuildParameter(data, requires_grad, backward_hooks),
          heap |-> st.heap, applied |-> st.applied, reads |-> <<>>]

RECURSIVE CallFunc(_, _, _)
RECURSIVE RebuildFromTypeV2Hook(_, _, _, _, _)

(* Calling func on args, for a callable of the descriptor stream. *)
CallFunc(func, args, st) ==
    IF func = "rebuild_tensor_v2"
    THEN RebuildTensorV2Hook(args.storage, args.rebuild_args, st)
    ELSE IF func = "rebuild_parameter"
    THEN RebuildParameterHook(args.data, args.requires_grad, args.backward_hooks, st)
    ELSE IF func = "rebuild_from_type_v2"
    THEN LET r == RebuildFromTypeV2Hook(args.func, args.new_type, args.args, args.state, st)
         IN  [ret |-> r.ret, heap |-> r.heap, applied |-> r.applied, reads |-> r.reads]
    ELSE [ret |-> RealCtor, heap |-> st.heap, applied |-> st.applied, reads |-> <<>>]

(* inner is the value the hook's own call of func returned; func_calls     *)
(* counts the calls of func this invocation makes.                         *)
RebuildFromTypeV2Hook(func, new_type, args, state, st) ==
    LET r == CallFunc(func, args, st)
    IN  IF IsLazy(r.ret)
        THEN LET old_lt == r.heap[r.ret.id].load_tensor
                 closure == [fn |-> "from_type", old_lt |-> old_lt,
                             new_type |-> new_type, state |-> state]
             IN  [ret |-> r.ret,
                  heap |-> [r.heap EXCEPT ![r.ret.id].load_tensor = closure],
                  applied |-> [r.applied EXCEPT ![r.ret.id] =
                                 Append(@, [hook |-> "from_type",
                                            new_type |-> new_type,
                                            state |-> state])],
                  reads |-> r.reads,
                  inner |-> r.ret, inner_lt |-> old_lt, func_calls |-> 1]
        ELSE LET r2 == CallFunc(func, args, [heap |-> r.heap, applied |-> r.applied])
             IN  [ret |-> TorchRebuildFromTypeV2(r2.ret, new_type, state),
                  heap |-> r2.heap, applied |-> r2.applied,
                  reads |-> r.reads \o r2.reads,
                  inner |-> r.ret, inner_lt |-> None, func_calls |-> 2]

(***************************************************************************)
(* _LazyLoadingUnpickler.find_class and persistent_load.                   *)
(***************************************************************************)
Idents == { <<"torch._utils", "_rebuild_tensor_v2">>,
            <<"torch._tensor", "_rebuild_from_type_v2">>,
            <<"torch._utils", "_rebuild_parameter">>,
            <<"torch._utils", "_rebuild_meta_tensor_no_storage">>,
            <<"foo.bar", "baz">> }

(* pickle.Unpickler.find_class: imports the module and looks the name up. *)
SuperFindClass(module, name) ==
    IF module \in {"torch._utils", "torch._tensor"} THEN "real_ctor" ELSE "unresolved"

FindClass(module, name) ==
    IF module = "torch._utils" /\ name = "_rebuild_tensor_v2" THEN "rebuild_tensor_v2"
    ELSE IF module = "torch._tensor" /\ name = "_rebuild_from_type_v2" THEN "rebuild_from_type_v2"
    ELSE IF module = "torch._utils" /\ name = "_rebuild_parameter" THEN "rebuild_parameter"
    ELSE SuperFindClass(module, name)

PersistentLoadStorage(pid) ==
    [kind |-> "storage", dtype |-> StorageDtype(pid.cls), device |-> "meta",
     archiveinfo |-> pid]

(***************************************************************************)
(* The descriptor streams: the calls a REDUCE of the stream can make with  *)
(* the value on top of the unpickler's stack as argument.                  *)
(***************************************************************************)
RECURSIVE WrapDepth(_)
WrapDepth(v) ==
    IF v.kind = "tensor" /\ v.fn \in {"_rebuild_parameter", "_rebuild_from_type_v2"}
    THEN 1 + WrapDepth(v.data)
    ELSE 0

(* The wrapper-hook applications the stream has made so far. *)
RECURSIVE SumWraps(_, _)
SumWraps(ap, vals) ==
    IF ap # <<>> THEN Len(Head(ap)) + SumWraps(Tail(ap), vals)
    ELSE IF vals # <<>>
    THEN (IF Head(vals).kind = "tensor" THEN WrapDepth(Head(vals)) ELSE 0)
         + SumWraps(ap, Tail(vals))
    ELSE 0

Values(d) == [i \in 1..Len(d) |-> d[i].val]

StackCalls(top) ==
    IF top.kind = "storage"
    THEN { [func |-> "rebuild_tensor_v2",
            args |-> [storage |-> top, rebuild_args |-> ra]] : ra \in RebuildArgs }
    ELSE IF top.kind \in {"lazy", "tensor"}
    THEN { [func |-> "rebuild_parameter",
            args |-> [data |-> top, requires_grad |-> rg, backward_hooks |-> "hooks"]] :
            rg \in RequiresGrad }
    ELSE {}

CtorCalls == { [func |-> "real_ctor", args |-> None] }

RECURSIVE NestedCalls(_, _)
NestedCalls(leaves, n) ==
    IF n = 0 THEN leaves
    ELSE LET prev == NestedCalls(leaves, n - 1)
         IN  prev \cup { [func |-> "rebuild_from_type_v2",
                          args |-> [func |-> c.func, new_type |-> t,
                                    args |-> c.args, state |-> s]] :
                          c \in prev, t \in NewTypes, s \in States }

Top(stk) == stk[Len(stk)]
Pop(stk) == SubSeq(stk, 1, Len(stk) - 1)

(* A value is built only when the graph still has a key to store it under. *)
CanPush == stack = <<>> /\ Len(checkpoint) < Len(Keys)

(* checkpoint[k] = v on the ordered dict: an existing key keeps its place. *)
DictSet(d, k, v) ==
    IF \E i \in 1..Len(d) : d[i].key = k
    THEN [i \in 1..Len(d) |-> IF d[i].key = k THEN [key |-> k, val |-> v] ELSE d[i]]
    ELSE Append(d, [key |-> k, val |-> v])

Init ==
    /\ phase = "init"
    /\ stack = <<>>
    /\ memo = None
    /\ heap = <<>>
    /\ applied = <<>>
    /\ checkpoint = <<>>
    /\ reads = <<>>
    /\ records = 0
    /\ last = [op |-> "none"]

(* _lazy_load up to the start of mup.load(): the descriptor stream is read. *)
LazyLoad ==
    /\ phase = "init"
    /\ phase' = "loading"
    /\ records' = records + 1
    /\ last' = [op |-> "get_record", name |-> "data.pkl"]
    /\ UNCHANGED <<stack, memo, heap, applied, checkpoint, reads>>

PersistentLoad ==
    /\ phase = "loading"
    /\ CanPush
    /\ \E pid \in Pids :
         /\ stack' = Append(stack, PersistentLoadStorage(pid))
         /\ last' = [op |-> "persistent_load", pid |-> pid]
    /\ UNCHANGED <<phase, memo, heap, applied, checkpoint, reads, records>>

RebuildTensorV2 ==
    /\ phase = "loading"
    /\ stack # <<>>
    /\ Top(stack).kind = "storage"
    /\ FindClass("torch._utils", "_rebuild_tensor_v2") = "rebuild_tensor_v2"
    /\ \E ra \in RebuildArgs :
         LET r == RebuildTensorV2Hook(Top(stack), ra, [heap |-> heap, applied |-> applied])
         IN  /\ heap' = r.heap
             /\ applied' = r.applied
             /\ reads' = reads \o r.reads
             /\ stack' = Append(Pop(stack), r.ret)
             /\ last' = [op |-> "rebuild_tensor_v2", ret |-> r.ret]
    /\ UNCHANGED <<phase, memo, checkpoint, records>>

RebuildParameter ==
    /\ phase = "loading"
    /\ stack # <<>>
    /\ Top(stack).kind \in {"lazy", "tensor"}
    /\ FindClass("torch._utils", "_rebuild_parameter") = "rebuild_parameter"
    /\ LET data == Top(stack)
       IN  /\ SumWraps(applied, stack \o Values(checkpoint)) < MaxWraps
           /\ \E rg \in RequiresGrad :
                LET r == RebuildParameterHook(data, rg, "hooks",
                                              [heap |-> heap, applied |-> applied])
                IN  /\ heap' = r.heap
                    /\ applied' = r.applied
                    /\ stack' = Append(Pop(stack), r.ret)
                    /\ last' = [op |-> "rebuild_parameter", inner |-> data,
                                inner_lt |-> IF IsLazy(data) THEN heap[data.id].load_tensor
                                                             ELSE None,
                                ret |-> r.ret]
                    /\ reads' = reads \o r.reads
    /\ UNCHANGED <<phase, memo, checkpoint, records>>

RebuildFromTypeV2 ==
    /\ phase = "loading"
    /\ FindClass("torch._tensor", "_rebuild_from_type_v2") = "rebuild_from_type_v2"
    /\ \E fromStack \in BOOLEAN :
         /\ fromStack => stack # <<>>
         /\ ~fromStack => CanPush
         /\ \E c \in NestedCalls(IF fromStack THEN StackCalls(Top(stack)) ELSE CtorCalls,
                                 MaxWraps - 1),
               new_type \in NewTypes, state \in States :
              LET r == RebuildFromTypeV2Hook(c.func, new_type, c.args, state,
                                             [heap |-> heap, applied |-> applied])
              IN  /\ SumWraps(r.applied, <<r.ret>> \o Values(checkpoint)) <= MaxWraps
                  /\ heap' = r.heap
                  /\ applied' = r.applied
                  /\ stack' = Append(IF fromStack THEN Pop(stack) ELSE stack, r.ret)
                  /\ last' = [op |-> "rebuild_from_type_v2", inner |-> r.inner,
                              inner_lt |-> r.inner_lt, ret |-> r.ret,
                              func_calls |-> r.func_calls]
                  /\ reads' = reads \o r.reads
    /\ UNCHANGED <<phase, memo, checkpoint, records>>

(* The stream memoizes the value on top of the stack, and fetches it again. *)
Memoize ==
    /\ phase = "loading"
    /\ stack # <<>>
    /\ memo = None
    /\ IsLazy(Top(stack))
    /\ memo' = Top(stack)
    /\ last' = [op |-> "memoize"]
    /\ UNCHANGED <<phase, stack, heap, applied, checkpoint, reads, records>>

BinGet ==
    /\ phase = "loading"
    /\ memo # None
    /\ CanPush
    /\ stack' = Append(stack, memo)
    /\ last' = [op |-> "binget"]
    /\ UNCHANGED <<phase, memo, heap, applied, checkpoint, reads, records>>

(* The stream builds a container around the value on top of the stack. *)
BuildList ==
    /\ phase = "loading"
    /\ stack # <<>>
    /\ IsLazy(Top(stack))
    /\ stack' = Append(Pop(stack), [kind |-> "list", items |-> <<Top(stack)>>])
    /\ last' = [op |-> "list"]
    /\ UNCHANGED <<phase, memo, heap, applied, checkpoint, reads, records>>

(* The stream stores the value on top of the stack under the next key of   *)
(* the graph.                                                              *)
SetItem ==
    /\ phase = "loading"
    /\ stack # <<>>
    /\ Top(stack).kind # "storage"
    /\ Len(checkpoint) < Len(Keys)
    /\ LET k == Keys[Len(checkpoint) + 1]
       IN  /\ checkpoint' = DictSet(checkpoint, k, Top(stack))
           /\ last' = [op |-> "setitem", key |-> k]
    /\ stack' = Pop(stack)
    /\ UNCHANGED <<phase, memo, heap, applied, reads, records>>

(* Variant: the failure is swallowed and the graph built so far returned. *)
FindClassFailsReturnsGraph ==
    /\ phase = "loading"
    /\ \E ident \in Idents :
         /\ FindClass(ident[1], ident[2]) = "unresolved"
         /\ last' = [op |-> "load", ok |-> FALSE, error |-> "unresolved", ident |-> ident]
    /\ phase' = "loaded"
    /\ UNCHANGED <<stack, memo, heap, applied, checkpoint, reads, records>>

(* The stream names a constructor that find_class cannot resolve: load raises. *)
FindClassFails ==
    /\ phase = "loading"
    /\ \E ident \in Idents :
         /\ FindClass(ident[1], ident[2]) = "unresolved"
         /\ last' = [op |-> "load", ok |-> FALSE, error |-> "unresolved", ident |-> ident]
    /\ phase' = "failed"
    /\ UNCHANGED <<stack, memo, heap, applied, checkpoint, reads, records>>

(* mup.load() reaches the end of the stream: _lazy_load returns the graph. *)
LoadReturns ==
    /\ phase = "loading"
    /\ stack = <<>>
    /\ phase' = "loaded"
    /\ memo' = None
    /\ last' = [op |-> "load", ok |-> TRUE]
    /\ UNCHANGED <<stack, heap, applied, checkpoint, reads, records>>

(***************************************************************************)
(* After load: the values a caller can reach in the returned graph.        *)
(***************************************************************************)
TopValues(d) == { d[i].val : i \in 1..Len(d) }

LazyIds(d) ==
    { v.id : v \in { w \in TopValues(d) : IsLazy(w) } }
    \cup { v.items[1].id : v \in { w \in TopValues(d) : w.kind = "list" } }

(***************************************************************************)
(* _materialize_tensors: the loop over checkpoint.items().  A failing      *)
(* _load_tensor raises out of the loop; key is the key it failed at.       *)
(***************************************************************************)
(* Variant: the loaded value is not stored back under its key. *)
RECURSIVE MaterializeLoopNoStore(_, _, _, _)
MaterializeLoopNoStore(h, d, i, rd) ==
    IF i > Len(d)
    THEN [ok |-> TRUE, checkpoint |-> d, reads |-> rd, key |-> None]
    ELSE LET k == d[i].key
             v == d[i].val
         IN  IF IsLazy(v)
             THEN LET r == LoadTensor(h, v.id)
                  IN  IF r.ok
                      THEN MaterializeLoopNoStore(h, d, i + 1, rd \o r.reads)
                      ELSE [ok |-> FALSE, checkpoint |-> d, reads |-> rd \o r.reads,
                            key |-> [kind |-> "key", key |-> k]]
             ELSE MaterializeLoopNoStore(h, d, i + 1, rd)

(* Variant: a failing entry is skipped and the walk goes on; the first     *)
(* failure is raised at the end.                                           *)
RECURSIVE MaterializeLoopGoesOn(_, _, _, _, _)
MaterializeLoopGoesOn(h, d, i, rd, failed) ==
    IF i > Len(d)
    THEN [ok |-> failed = None, checkpoint |-> d, reads |-> rd, key |-> failed]
    ELSE LET k == d[i].key
             v == d[i].val
         IN  IF IsLazy(v)
             THEN LET r == LoadTensor(h, v.id)
                  IN  IF r.ok
                      THEN MaterializeLoopGoesOn(h, DictSet(d, k, r.val), i + 1,
                                                 rd \o r.reads, failed)
                      ELSE MaterializeLoopGoesOn(h, d, i + 1, rd \o r.reads,
                                                 IF failed = None
                                                 THEN [kind |-> "key", key |-> k]
                                                 ELSE failed)
             ELSE MaterializeLoopGoesOn(h, d, i + 1, rd, failed)

MaterializeLoopCollects(h, d, i, rd) == MaterializeLoopGoesOn(h, d, i, rd, None)

(* Variant: the walk descends into containers and loads what they hold. *)
RECURSIVE MaterializeLoopDeep(_, _, _, _)
MaterializeLoopDeep(h, d, i, rd) ==
    IF i > Len(d)
    THEN [ok |-> TRUE, checkpoint |-> d, reads |-> rd, key |-> None]
    ELSE LET k == d[i].key
             v == d[i].val
             inner == IF v.kind = "list" THEN v.items[1] ELSE v
         IN  IF IsLazy(inner)
             THEN LET r == LoadTensor(h, inner.id)
                      new == IF v.kind = "list" THEN [v EXCEPT !.items = <<r.val>>]
                                                ELSE r.val
                  IN  IF r.ok
                      THEN MaterializeLoopDeep(h, DictSet(d, k, new), i + 1, rd \o r.reads)
                      ELSE [ok |-> FALSE, checkpoint |-> d, reads |-> rd \o r.reads,
                            key |-> [kind |-> "key", key |-> k]]
             ELSE MaterializeLoopDeep(h, d, i + 1, rd)

RECURSIVE MaterializeLoop(_, _, _, _)
MaterializeLoop(h, d, i, rd) ==
    IF i > Len(d)
    THEN [ok |-> TRUE, checkpoint |-> d, reads |-> rd, key |-> None]
    ELSE LET k == d[i].key
             v == d[i].val
         IN  IF IsLazy(v)
             THEN LET r == LoadTensor(h, v.id)
                  IN  IF r.ok
                      THEN MaterializeLoop(h, DictSet(d, k, r.val), i + 1, rd \o r.reads)
                      ELSE [ok |-> FALSE, checkpoint |-> d, reads |-> rd \o r.reads,
                            key |-> [kind |-> "key", key |-> k]]
             ELSE MaterializeLoop(h, d, i + 1, rd)

MaterializeTensors ==
    /\ phase = "loaded"
    /\ checkpoint # <<>>
    /\ LET m == MaterializeLoop(heap, checkpoint, 1, <<>>)
       IN  /\ checkpoint' = m.checkpoint
           /\ reads' = m.reads
           /\ last' = [op |-> "materialize_tensors", ok |-> m.ok, ret |-> None,
                       before |-> checkpoint, key |-> m.key]
    /\ UNCHANGED <<phase, stack, memo, heap, applied, records>>

(* What the call before returned, when it was a _load_tensor call on the   *)
(* same object.                                                            *)
Previous(l, id) ==
    IF l.op = "load_tensor" /\ l.id = id
    THEN [kind |-> "result", ok |-> l.ok, val |-> l.val]
    ELSE None

(* Variant: the load uses the pending steps up, leaving the bare method. *)
LoadTensorCallConsumes ==
    /\ phase = "loaded"
    /\ \E id \in LazyIds(checkpoint) :
         LET r == LoadTensor(heap, id)
         IN  /\ reads' = r.reads
             /\ heap' = [heap EXCEPT ![id].load_tensor = [fn |-> "method"]]
             /\ last' = [op |-> "load_tensor", id |-> id, ok |-> r.ok, val |-> r.val,
                         prev |-> Previous(last, id)]
    /\ UNCHANGED <<phase, stack, memo, applied, checkpoint, records>>

(* A caller materializes one Lazy Value of the graph: v._load_tensor(). *)
LoadTensorCall ==
    /\ phase = "loaded"
    /\ \E id \in LazyIds(checkpoint) :
         LET r == LoadTensor(heap, id)
         IN  /\ reads' = r.reads
             /\ heap' = heap
             /\ last' = [op |-> "load_tensor", id |-> id, ok |-> r.ok, val |-> r.val,
                         prev |-> Previous(last, id)]
    /\ UNCHANGED <<phase, stack, memo, applied, checkpoint, records>>

(***************************************************************************)
(* __torch_function__: the list comprehension over args, then the call of  *)
(* func.  kwargs is None or a dict, its items a sequence of pairs.         *)
(***************************************************************************)
RECURSIVE LoadArgs(_, _, _, _, _)
LoadArgs(h, args, i, loaded_args, rd) ==
    IF i > Len(args)
    THEN [ok |-> TRUE, loaded_args |-> loaded_args, reads |-> rd]
    ELSE LET arg == args[i]
         IN  IF IsLazy(arg)
             THEN LET r == LoadTensor(h, arg.id)
                  IN  IF r.ok
                      THEN LoadArgs(h, args, i + 1, Append(loaded_args, r.val),
                                    rd \o r.reads)
                      ELSE [ok |-> FALSE, loaded_args |-> loaded_args,
                            reads |-> rd \o r.reads]
             ELSE LoadArgs(h, args, i + 1, Append(loaded_args, arg), rd)

Dict(items) == [kind |-> "dict", items |-> items]

(* kwargs or {}: None and the empty dict both give the empty dict. *)
KwargsOrEmpty(kwargs) ==
    IF kwargs.kind = "none" THEN Dict(<<>>)
    ELSE IF kwargs.items = <<>> THEN Dict(<<>>)
    ELSE kwargs

(* func called on the positional and keyword arguments it is handed. *)
Func(args, kwargs) == [kind |-> "tensor", fn |-> "func", args |-> args, kwargs |-> kwargs]

(* Variant: func is called on the positional arguments only. *)
TorchFunctionCallDropsKwargs(h, args, kwargs) ==
    LET l == LoadArgs(h, args, 1, <<>>, <<>>)
    IN  IF l.ok
        THEN [ok |-> TRUE, called_args |-> l.loaded_args, called_kwargs |-> Dict(<<>>),
              ret |-> Func(l.loaded_args, Dict(<<>>)), reads |-> l.reads]
        ELSE [ok |-> FALSE, called_args |-> <<>>, called_kwargs |-> Dict(<<>>),
              ret |-> None, reads |-> l.reads]

TorchFunctionCall(h, args, kwargs) ==
    LET kw == KwargsOrEmpty(kwargs)
        l == LoadArgs(h, args, 1, <<>>, <<>>)
    IN  IF l.ok
        THEN [ok |-> TRUE, called_args |-> l.loaded_args, called_kwargs |-> kw,
              ret |-> Func(l.loaded_args, kw), reads |-> l.reads]
        ELSE [ok |-> FALSE, called_args |-> <<>>, called_kwargs |-> Dict(<<>>),
              ret |-> None, reads |-> l.reads]

(* The calls of the model: at most two values of the graph as arguments. *)
CallShapes(vals) ==
    { [args |-> <<a>>, kwargs |-> None] : a \in vals }
    \cup { [args |-> <<a, b>>, kwargs |-> None] : a \in vals, b \in vals }
    \cup { [args |-> <<a>>, kwargs |-> Dict(<<[key |-> "other", val |-> b]>>)] :
             a \in vals, b \in vals }
    \cup { [args |-> <<>>, kwargs |-> Dict(<<[key |-> "other", val |-> b]>>)] : b \in vals }

TorchFunction ==
    /\ phase = "loaded"
    /\ \E c \in CallShapes(TopValues(checkpoint)) :
         LET r == TorchFunctionCall(heap, c.args, c.kwargs)
         IN  /\ reads' = r.reads
             /\ last' = [op |-> "torch_function", args |-> c.args, kwargs |-> c.kwargs,
                         ok |-> r.ok, called_args |-> r.called_args,
                         called_kwargs |-> r.called_kwargs, ret |-> r.ret]
    /\ UNCHANGED <<phase, stack, memo, heap, applied, checkpoint, records>>

(***************************************************************************)
(* __getattr__.                                                            *)
(***************************************************************************)
MetaNames == {"dtype", "grad", "grad_fn", "layout", "names", "ndim", "output_nr",
              "requires_grad", "retains_grad", "size", "shape", "volatile"}

LoadingNames == {"contiguous"}

(* The attribute names accessed in the model. *)
AttrNames == MetaNames \cup LoadingNames \cup {"tolist", "data"}

(* getattr(metatensor, name) for a tensor on a meta storage. *)
MetaGetAttr(metatensor, name) ==
    LET size == metatensor.rebuild_args.size
    IN  IF name = "dtype" THEN [attr |-> name, dtype |-> metatensor.storage.dtype]
        ELSE IF name \in {"size", "shape"} THEN [attr |-> name, size |-> size]
        ELSE IF name = "ndim" THEN [attr |-> name, ndim |-> Len(size)]
        ELSE IF name = "requires_grad"
        THEN [attr |-> name, requires_grad |-> metatensor.rebuild_args.requires_grad]
        ELSE IF name = "layout" THEN [attr |-> name, layout |-> "strided"]
        ELSE IF name = "names" THEN [attr |-> name, names |-> [i \in 1..Len(size) |-> None]]
        ELSE IF name = "output_nr" THEN [attr |-> name, output_nr |-> 0]
        ELSE IF name \in {"retains_grad", "volatile"} THEN [attr |-> name, flag |-> FALSE]
        ELSE [attr |-> name, none |-> None]

(* Variant: every name off the allow-list materializes, as contiguous does. *)
GetAttrCallLoadsOthers(h, id, name) ==
    IF name \in MetaNames
    THEN [ok |-> TRUE, val |-> MetaGetAttr(h[id].metatensor, name), reads |-> <<>>]
    ELSE LET r == LoadTensor(h, id)
         IN  IF r.ok
             THEN [ok |-> TRUE, val |-> [attr |-> name, of |-> r.val], reads |-> r.reads]
             ELSE [ok |-> FALSE, val |-> [error |-> "load"], reads |-> r.reads]

(* Variant: size is missing from the allow-list. *)
GetAttrCallWithoutSize(h, id, name) ==
    IF name \in MetaNames \ {"size"}
    THEN [ok |-> TRUE, val |-> MetaGetAttr(h[id].metatensor, name), reads |-> <<>>]
    ELSE IF name \in LoadingNames
    THEN LET r == LoadTensor(h, id)
         IN  IF r.ok
             THEN [ok |-> TRUE, val |-> [attr |-> name, of |-> r.val], reads |-> r.reads]
             ELSE [ok |-> FALSE, val |-> [error |-> "load"], reads |-> r.reads]
    ELSE [ok |-> FALSE, val |-> [error |-> "AttributeError"], reads |-> <<>>]

GetAttrCall(h, id, name) ==
    IF name \in MetaNames
    THEN [ok |-> TRUE, val |-> MetaGetAttr(h[id].metatensor, name), reads |-> <<>>]
    ELSE IF name \in LoadingNames
    THEN LET r == LoadTensor(h, id)
         IN  IF r.ok
             THEN [ok |-> TRUE, val |-> [attr |-> name, of |-> r.val], reads |-> r.reads]
             ELSE [ok |-> FALSE, val |-> [error |-> "load"], reads |-> r.reads]
    ELSE [ok |-> FALSE, val |-> [error |-> "AttributeError"], reads |-> <<>>]

GetAttr ==
    /\ phase = "loaded"
    /\ \E id \in LazyIds(checkpoint), name \in AttrNames :
         LET r == GetAttrCall(heap, id, name)
         IN  /\ reads' = r.reads
             /\ last' = [op |-> "getattr", id |-> id, name |-> name, ok |-> r.ok,
                         val |-> r.val]
    /\ UNCHANGED <<phase, stack, memo, heap, applied, checkpoint, records>>

Next ==
    \/ LazyLoad
    \/ PersistentLoad
    \/ RebuildTensorV2
    \/ RebuildParameter
    \/ RebuildFromTypeV2
    \/ Memoize
    \/ BinGet
    \/ BuildList
    \/ SetItem
    \/ FindClassFails
    \/ LoadReturns
    \/ MaterializeTensors
    \/ LoadTensorCall
    \/ TorchFunction
    \/ GetAttr

Spec == Init /\ [][Next]_vars

(***************************************************************************)
(* Properties.                                                             *)
(***************************************************************************)
WrapperOps == {"rebuild_parameter", "rebuild_from_type_v2"}

(* The wrapper steps, applied to a real value by the torch constructors. *)
RefStep(step, v) ==
    IF step.hook = "parameter"
    THEN TorchRebuildParameter(v, step.requires_grad, step.backward_hooks)
    ELSE TorchRebuildFromTypeV2(v, step.new_type, step.state)

RECURSIVE RefFold(_, _)
RefFold(steps, v) ==
    IF steps = <<>> THEN v ELSE RefFold(Tail(steps), RefStep(Head(steps), v))

(* The read a Lazy Value's descriptor stands for. *)
ExpectedRead(obj) ==
    [name |-> <<"data", obj.storageinfo.fn>>,
     nbytes |-> obj.storageinfo.size *
                (IF obj.storageinfo.cls = "FloatStorage" THEN 4 ELSE 2)]

LazyEntries(d, n) == { j \in 1..n : IsLazy(d[j].val) }

(* C1: materializing a Lazy Value built by N wrapper hooks over one raw    *)
(* reconstruction returns the raw base value, loaded by one read, with the *)
(* N steps applied in the order the hooks were applied.                    *)
C1_StepsInOrder ==
    (last.op = "load_tensor" /\ last.ok) =>
        /\ last.val = RefFold(applied[last.id], LoadTensorMethod(heap[last.id]).val)
        /\ Len(reads) = 1

C1_Witness ==
    /\ last.op = "load_tensor"
    /\ last.ok
    /\ Len(applied[last.id]) = 2
    /\ applied[last.id][1].hook # applied[last.id][2].hook

(* C2: while load runs and when it returns, no storage record has been     *)
(* read, the descriptor stream has been fetched once, and every object the *)
(* raw reconstruction hook made is still a Lazy Value of the graph.        *)
C2_NoReadDuringLoad ==
    /\ phase = "loading" => (reads = <<>> /\ records = 1)
    /\ (phase = "loaded" /\ last.op = "load") =>
           /\ reads = <<>>
           /\ records = 1
           /\ \A id \in 1..Len(heap) : id \in LazyIds(checkpoint)

C2_Witness ==
    /\ phase = "loaded"
    /\ last.op = "load"
    /\ \E id \in 1..Len(heap) : Len(applied[id]) = 2

(* C3 as claimed: a wrapper hook that receives a Lazy Value returns a new  *)
(* Lazy Value and leaves the one it received as it was.                    *)
C3_WrapperReturnsNewLazyValue ==
    (last.op \in WrapperOps /\ IsLazy(last.inner)) =>
        /\ IsLazy(last.ret)
        /\ last.ret # last.inner
        /\ heap[last.inner.id].load_tensor = last.inner_lt

(* C4 as claimed: the operation is never called with a Lazy Value as a     *)
(* direct argument, positional or keyword.                                 *)
C4_NoLazyDirectArgument ==
    (last.op = "torch_function" /\ last.ok) =>
        /\ \A i \in 1..Len(last.called_args) : ~IsLazy(last.called_args[i])
        /\ \A j \in 1..Len(last.called_kwargs.items) :
               ~IsLazy(last.called_kwargs.items[j].val)

(* C5 as claimed: every name off the allow-list fails with the attribute   *)
(* error and reads nothing.                                                *)
C5_OnlyAllowListSucceeds ==
    (last.op = "getattr" /\ last.name \notin MetaNames) =>
        /\ ~last.ok
        /\ last.val = [error |-> "AttributeError"]
        /\ reads = <<>>

(* C5, amended: a name that is neither on the allow-list nor contiguous    *)
(* fails with the attribute error, reads nothing and leaves the Lazy Value *)
(* as it was; contiguous materializes the value by one read and leaves the *)
(* Lazy Value as it was.                                                   *)
C5_OthersFailContiguousLoads ==
    [][last'.op = "getattr" =>
         /\ heap' = heap
         /\ last'.name \notin (MetaNames \cup {"contiguous"}) =>
                (~last'.ok /\ last'.val = [error |-> "AttributeError"] /\ reads' = <<>>)
         /\ last'.name = "contiguous" =>
                /\ reads' = <<ExpectedRead(heap[last'.id])>>
                /\ last'.ok => last'.val = [attr |-> "contiguous",
                                            of |-> LoadTensor(heap, last'.id).val]]_vars

C5_Witness ==
    /\ last.op = "getattr"
    /\ last.name = "tolist"
    /\ ~last.ok
    /\ applied[last.id] # <<>>

(* C6: after _materialize_tensors returns, no top-level entry is a Lazy    *)
(* Value; each entry that was one holds, under its key, the value its      *)
(* _load_tensor returns; the call returns None.                            *)
C6_AllTopLevelMaterialized ==
    (last.op = "materialize_tensors" /\ last.ok) =>
        /\ last.ret = None
        /\ Len(checkpoint) = Len(last.before)
        /\ \A i \in 1..Len(checkpoint) :
             /\ checkpoint[i].key = last.before[i].key
             /\ ~IsLazy(checkpoint[i].val)
             /\ IsLazy(last.before[i].val) =>
                    checkpoint[i].val =
                        RefFold(applied[last.before[i].val.id],
                                LoadTensorMethod(heap[last.before[i].val.id]).val)

C6_Witness ==
    /\ last.op = "materialize_tensors"
    /\ last.ok
    /\ \E i \in 1..Len(last.before) :
         /\ IsLazy(last.before[i].val)
         /\ applied[last.before[i].val.id] # <<>>

(* C7: when _load_tensor fails at key k, _materialize_tensors raises, the  *)
(* entry at k and all later entries are as before with no read issued for  *)
(* the later ones, and the entries before k keep their loaded values.      *)
C7_FailFast ==
    (last.op = "materialize_tensors" /\ ~last.ok) =>
        \E k \in 1..Len(last.before) :
            /\ last.key = [kind |-> "key", key |-> last.before[k].key]
            /\ IsLazy(last.before[k].val)
            /\ Len(checkpoint) = Len(last.before)
            /\ \A j \in k..Len(checkpoint) : checkpoint[j] = last.before[j]
            /\ \A j \in 1..(k - 1) :
                 /\ checkpoint[j].key = last.before[j].key
                 /\ ~IsLazy(checkpoint[j].val)
            /\ Len(reads) = Cardinality(LazyEntries(last.before, k))

C7_Witness ==
    /\ last.op = "materialize_tensors"
    /\ ~last.ok
    /\ Len(last.before) = 2
    /\ last.key = [kind |-> "key", key |-> last.before[1].key]
    /\ IsLazy(last.before[2].val)
    /\ LoadTensor(heap, last.before[2].val.id).ok

(* C8: one _load_tensor call issues exactly one read, of data/<fn> with    *)
(* byte size = element count x element size, whatever the chain; a         *)
(* _materialize_tensors that returns issues one read per top-level Lazy    *)
(* Value, a 16-byte read of data/0 for a graph of one float entry.         *)
C8_OneReadPerMaterialize ==
    /\ last.op = "load_tensor" => reads = <<ExpectedRead(heap[last.id])>>
    /\ (last.op = "materialize_tensors" /\ last.ok) =>
           /\ Len(reads) = Cardinality(LazyEntries(last.before, Len(last.before)))
           /\ (Len(last.before) = 1 /\ IsLazy(last.before[1].val)) =>
                  reads = <<[name |-> <<"data", "0">>, nbytes |-> 16]>>

C8_Witness ==
    /\ last.op = "load_tensor"
    /\ last.ok
    /\ Len(applied[last.id]) = 2

(* C9: a _load_tensor call leaves the Lazy Value as it was, and a second   *)
(* call on the same Lazy Value returns what the first returned.            *)
C9_Idempotent ==
    [][last'.op = "load_tensor" =>
         /\ heap' = heap
         /\ last'.prev # None =>
                (last'.ok = last'.prev.ok /\ last'.val = last'.prev.val)]_vars

C9_Witness ==
    /\ last.op = "load_tensor"
    /\ last.prev # None
    /\ last.ok
    /\ applied[last.id] # <<>>

(* C10: an allow-listed metadata property of a Lazy Value is served from   *)
(* its meta tensor and issues no read.                                     *)
C10_MetadataWithoutRead ==
    (last.op = "getattr" /\
     last.name \in {"dtype", "shape", "size", "ndim", "layout", "names", "requires_grad",
                    "grad", "grad_fn", "output_nr", "retains_grad", "volatile"}) =>
        /\ last.ok
        /\ reads = <<>>
        /\ last.val = MetaGetAttr(heap[last.id].metatensor, last.name)
        /\ last.name \in {"shape", "size"} => last.val.size = heap[last.id].rebuild_args.size
        /\ last.name = "dtype" =>
               last.val.dtype = (IF heap[last.id].storageinfo.cls = "FloatStorage"
                                 THEN "float32" ELSE "float16")

C10_Witness ==
    /\ last.op = "getattr"
    /\ last.name = "size"
    /\ last.ok
    /\ applied[last.id] # <<>>

(* The direct arguments of a call that are Lazy Values, by position. *)
LazyArgs(args) == { i \in 1..Len(args) : IsLazy(args[i]) }

LazyKwargs(kwargs) ==
    IF kwargs.kind = "none" THEN {}
    ELSE { j \in 1..Len(kwargs.items) : IsLazy(kwargs.items[j].val) }

(* C11 as claimed: a value _load_tensor returns has the shape and the      *)
(* dtype of the Lazy Value's meta tensor; a mismatch is an error instead.  *)
C11_MaterializedMatchesMeta ==
    (last.op = "load_tensor" /\ last.ok) =>
        /\ ShapeOf(last.val) = heap[last.id].metatensor.rebuild_args.size
        /\ DtypeOf(last.val) = heap[last.id].metatensor.storage.dtype

(* C12: when no direct argument is a Lazy Value, func is called on the     *)
(* positional and keyword arguments as given, no read is issued, and the   *)
(* result of func is returned.                                             *)
C12_RealArgumentsPassThrough ==
    (last.op = "torch_function" /\ LazyArgs(last.args) = {}
                                /\ LazyKwargs(last.kwargs) = {}) =>
        /\ last.ok
        /\ last.called_args = last.args
        /\ last.called_kwargs = (IF last.kwargs = None THEN Dict(<<>>) ELSE last.kwargs)
        /\ last.ret = [kind |-> "tensor", fn |-> "func", args |-> last.args,
                       kwargs |-> last.called_kwargs]
        /\ reads = <<>>

C12_Witness ==
    /\ last.op = "torch_function"
    /\ LazyArgs(last.args) = {}
    /\ LazyKwargs(last.kwargs) = {}
    /\ Len(last.args) = 1
    /\ last.kwargs # None
    /\ last.kwargs.items[1].val # last.args[1]
    /\ last.ok

(* C13: load returns the graph with every value stored, or fails: a        *)
(* constructor that is none of the three hooks and has no default          *)
(* resolution makes it fail with the unresolved-symbol error naming it,    *)
(* no graph is returned, and no storage record has been read.              *)
C13_LoadAllOrNothing ==
    /\ (last.op = "load" /\ last.ok) => (phase = "loaded" /\ stack = <<>>)
    /\ (last.op = "load" /\ ~last.ok) =>
           /\ phase = "failed"
           /\ last.error = "unresolved"
           /\ last.ident \notin { <<"torch._utils", "_rebuild_tensor_v2">>,
                                  <<"torch._tensor", "_rebuild_from_type_v2">>,
                                  <<"torch._utils", "_rebuild_parameter">> }
           /\ last.ident[1] \notin {"torch._utils", "torch._tensor"}
           /\ reads = <<>>
    /\ phase = "failed" => (last.op = "load" /\ ~last.ok)
    /\ phase = "loaded" => last.op \notin {"none", "get_record"}

C13_Witness ==
    /\ phase = "failed"
    /\ last.ident = <<"foo.bar", "baz">>
    /\ heap # <<>>
    /\ checkpoint # <<>>

(* C14 as claimed: a dispatch that calls func leaves every Lazy Value as   *)
(* it was and issues one read per direct Lazy Value argument, positional   *)
(* or keyword.                                                             *)
C14_OneReadPerLazyArgument ==
    [][(last'.op = "torch_function" /\ last'.ok) =>
         /\ heap' = heap
         /\ checkpoint' = checkpoint
         /\ Len(reads') = Cardinality(LazyArgs(last'.args))
                          + Cardinality(LazyKwargs(last'.kwargs))]_vars

(* C15: _materialize_tensors keeps the keys and their order, leaves every  *)
(* top-level entry that is not a Lazy Value as it was, containers and the  *)
(* Lazy Values in them included, and reads only for top-level Lazy Values. *)
C15_OnlyTopLevelLazyChanges ==
    [][last'.op = "materialize_tensors" =>
         /\ heap' = heap
         /\ Len(checkpoint') = Len(checkpoint)
         /\ \A i \in 1..Len(checkpoint) :
              /\ checkpoint'[i].key = checkpoint[i].key
              /\ ~IsLazy(checkpoint[i].val) => checkpoint'[i] = checkpoint[i]
         /\ Len(reads') <= Cardinality(LazyEntries(checkpoint, Len(checkpoint)))
         /\ \A n \in 1..Len(reads') :
              \E i \in LazyEntries(checkpoint, Len(checkpoint)) :
                  reads'[n] = ExpectedRead(heap[checkpoint[i].val.id])]_vars

C15_Witness ==
    /\ last.op = "materialize_tensors"
    /\ last.ok
    /\ \E i \in 1..Len(last.before) : last.before[i].val.kind = "list"
    /\ \E j \in 1..Len(last.before) : IsLazy(last.before[j].val)

(* C16 as claimed: one invocation of rebuild_from_type_v2 calls func once, *)
(* whether func returns a Lazy Value or a real value.                      *)
C16_InnerCallEvaluatedOnce ==
    last.op = "rebuild_from_type_v2" => last.func_calls = 1

====
